---- MODULE Spec2Model ----
(***************************************************************************)
(* Verification model of the download manager of the Electron main         *)
(* process (src/unnamed/part_001): the module-level state downloadQueue,   *)
(* activeDownloadProcess and queueProcessing, the functions startDownload  *)
(* and processQueue, the worker's 'close' and 'error' handlers and the     *)
(* IPC handlers "start-download" and "cancel-download".                    *)
(*                                                                         *)
(* The host is a single-threaded event loop: every handler below has no    *)
(* await in it, so each one runs to completion and is one atomic action.   *)
(*                                                                         *)
(* Worker events follow the contract of Node's ChildProcess: a worker that *)
(* was spawned emits 'close' once, with its exit code or with null when a  *)
(* signal ended it; a worker whose spawn failed emits 'error' on the next  *)
(* tick (before any other event is handled) and, after that, 'close' with  *)
(* the negative errno as code.                                             *)
(*                                                                         *)
(* The operations that do not touch the manager's state (the stdout        *)
(* handler, getAnimeDetail, searchAnime, decodeHtmlEntities, fetchUrl and  *)
(* the argument list built by processQueue) each have a specification of   *)
(* their own further down, with the manager held in its initial state.     *)
(***************************************************************************)
EXTENDS Integers, Sequences, FiniteSets, TLC

\* ------------------------------------------------------------- bounds ----

\* Number of jobs that start-download may append over one run.
MaxJobs == 3

\* ---------------------------------------------------------- constants ----

\* The value of a null reference (activeDownloadProcess, a null exit code).
Null == 0

\* Exit codes a worker that ran can deliver to 'close': 0, a failure code,
\* or null (here -1) when the process was ended by a signal.
NullCode == -1
ExitCodes == {0, 2, NullCode}

\* The code 'close' carries after a failed spawn: the negative errno (ENOENT).
SpawnErrno == -2

\* DownloadOptions.episodes as the list of episode numbers, in request order.
EpisodeLists == {<< >>, <<2, 1>>}

VARIABLES
  mainWindow,             \* TRUE once createWindow has run
  downloadQueue,          \* sequence of QueueItem: [id, episodes]
  activeDownloadProcess,  \* Null or the id of a worker
  queueProcessing,        \* BOOLEAN
  jobs,                   \* history: job id -> episodes of each QueueItem made
  procs,                  \* worker id -> [job, ok, state, signalled, exit],
                          \*   in spawn order
  sent,                   \* sequence of win.webContents.send calls
  result,                 \* value returned by the last IPC call
  op,                     \* the handler that ran last
  uncaught,               \* TRUE once an event handler threw
  shifted,                \* history: <<worker, job>> removed by an exit handler
  cancelled,              \* history: jobs in the queue at a cancel-download call
  cleared,                \* history: jobs without worker cleared by a cancel
                          \*          made while activeDownloadProcess # null
  \* State of the operations checked on their own (stdout handler,
  \* getAnimeDetail, searchAnime, decodeHtmlEntities, fetchUrl, the
  \* argument list of processQueue):
  input,                  \* what the operation is given
  pc,                     \* how far the operation has got
  buffer,                 \* the stdout handler's carry-over buffer
  seasons,                \* getAnimeDetail's seasons
  seenUrls,               \* searchAnime's seenUrls
  results,                \* searchAnime's results
  decoded,                \* values returned by decodeHtmlEntities
  url,                    \* the url fetchUrl is requesting
  settled,                \* fetchUrl's promise: pending, resolved, rejected
  args,                   \* the arguments processQueue hands to spawn
  \* State of the renderer (src/renderer/src/app.ts) and of the IPC between
  \* it and the main process:
  currentView,            \* state.currentView
  isDownloading,          \* state.isDownloading
  downloadEpisodes,       \* state.downloadEpisodes, as episode numbers
  episodeProgress,        \* state.episodeProgress: key -> ProgressData
  overall,                \* what #overall-fill and #overall-text show:
                          \*   the quotient total / count
  cancelLabel,            \* the text of the cancel button
  calls,                  \* invocations under way, renderer -> main
  ipc,                    \* messages under way, main -> renderer
  cartoons                \* history: job id -> options.cartoonId

\* The download manager's state apart from the send log.
managerVars == <<mainWindow, downloadQueue, activeDownloadProcess,
                 queueProcessing, jobs, procs, result, op, uncaught, shifted,
                 cancelled, cleared>>

\* The state of the operations checked on their own.
pureVars == <<input, pc, buffer, seasons, seenUrls, results, decoded,
              url, settled, args>>

\* The state of fetchUrl and of the worker's argument list.
callVars == <<url, settled, args>>

\* The renderer's state and the IPC traffic of a window.
rendererVars == <<currentView, isDownloading, downloadEpisodes,
                  episodeProgress, overall, cancelLabel, calls, ipc, cartoons>>

vars == <<mainWindow, downloadQueue, activeDownloadProcess, queueProcessing,
          jobs, procs, sent, result, op, uncaught, shifted, cancelled, cleared,
          input, pc, buffer, seasons, seenUrls, results, decoded,
          url, settled, args,
          currentView, isDownloading, downloadEpisodes, episodeProgress,
          overall, cancelLabel, calls, ipc, cartoons>>

\* --------------------------------------------------------------- helpers --

\* Array.prototype.shift on downloadQueue: drops the first element, if any.
Shift(q) == IF Len(q) = 0 THEN q ELSE Tail(q)

\* The jobs a worker has been spawned for.
Spawned == {procs[p].job : p \in DOMAIN procs}

\* Workers that are running OS processes: spawned, 'close' not yet delivered.
Live == {p \in DOMAIN procs : procs[p].state = "running"}

\* A failed spawn whose 'error' is queued for the next tick.
ErrorPending == \E p \in DOMAIN procs : procs[p].state = "spawnfail"

\* The close handler without `?? 1`: the code is sent as delivered.
NormalizeCodeRaw(code) == code

\* `code ?? 1` of the close handler.
NormalizeCode(code) == IF code = NullCode THEN 1 ELSE code

\* ---------------------------------------------------------- processQueue --

\* processQueue() run on queue q with the given handle and worker table;
\* spawnOk is the outcome of spawn(). The result is the state it leaves:
\* threw is TRUE when episodes[0] is undefined and firstEp.href throws.
processQueue(q, active, ps, spawnOk) ==
  IF Len(q) = 0
    THEN [queueProcessing |-> FALSE, active |-> active, procs |-> ps,
          threw |-> FALSE]
  ELSE IF Len(q[1].episodes) = 0
    THEN [queueProcessing |-> TRUE, active |-> active, procs |-> ps,
          threw |-> TRUE]
  ELSE [queueProcessing |-> TRUE,
        active |-> Len(ps) + 1,
        procs |-> Append(ps, [job |-> q[1].id,
                              ok |-> spawnOk,
                              state |-> IF spawnOk THEN "running"
                                                   ELSE "spawnfail",
                              signalled |-> FALSE,
                              exit |-> Null]),
        threw |-> FALSE]

\* ------------------------------------------------------------------ Init --

\* No fetchUrl call is under way and no argument list has been built.
CallIdle ==
  /\ url = << >>
  /\ settled = [state |-> "pending"]
  /\ args = << >>

\* The operations checked on their own are not running.
PureIdle ==
  /\ CallIdle
  /\ input = << >>
  /\ pc = "idle"
  /\ buffer = << >>
  /\ seasons = << >>
  /\ seenUrls = {}
  /\ results = << >>
  /\ decoded = << >>

\* The download manager after module load.
ManagerInit ==
  /\ mainWindow = FALSE
  /\ downloadQueue = << >>
  /\ activeDownloadProcess = Null
  /\ queueProcessing = FALSE
  /\ jobs = << >>
  /\ procs = << >>
  /\ result = [call |-> "none", success |-> TRUE, error |-> ""]
  /\ op = "init"
  /\ uncaught = FALSE
  /\ shifted = {}
  /\ cancelled = {}
  /\ cleared = {}

\* The renderer's state literal, before any IPC. The download view is not
\* shown before the first startDownloadFlow, which writes the overall
\* progress and the cancel button's text; until then they stand at the
\* values that flow writes.
RendererInit ==
  /\ currentView = "search"
  /\ isDownloading = FALSE
  /\ downloadEpisodes = << >>
  /\ episodeProgress = << >>
  /\ overall = [total |-> 0, count |-> 1]
  /\ cancelLabel = "cancel"
  /\ calls = << >>
  /\ ipc = << >>
  /\ cartoons = << >>

Init == ManagerInit /\ RendererInit /\ sent = << >> /\ PureIdle

\* --------------------------------------------------------------- actions --

\* app.whenReady().then(createWindow)
CreateWindow ==
  /\ ~mainWindow
  /\ mainWindow' = TRUE
  /\ op' = "createWindow"
  /\ UNCHANGED <<downloadQueue, activeDownloadProcess, queueProcessing, jobs,
                 procs, sent, result, uncaught, shifted, cancelled, cleared>>
  /\ UNCHANGED pureVars

\* ipcMain.handle("start-download") before a window exists.
StartDownloadNoWindow ==
  /\ ~mainWindow
  /\ ~ErrorPending
  /\ result' = [call |-> "start-download", success |-> FALSE,
                error |-> "No window"]
  /\ op' = "start-download"
  /\ UNCHANGED <<mainWindow, downloadQueue, activeDownloadProcess,
                 queueProcessing, jobs, procs, sent, uncaught, shifted,
                 cancelled, cleared>>
  /\ UNCHANGED pureVars

\* ipcMain.handle("start-download") -> startDownload(mainWindow, options).
StartDownload(episodes, spawnOk) ==
  /\ mainWindow
  /\ ~ErrorPending
  /\ Len(jobs) < MaxJobs
  /\ LET job == Len(jobs) + 1
         q   == Append(downloadQueue, [id |-> job, episodes |-> episodes])
     IN /\ jobs' = Append(jobs, episodes)
        /\ downloadQueue' = q
        /\ IF ~queueProcessing
             THEN LET r == processQueue(q, activeDownloadProcess, procs,
                                        spawnOk)
                  IN /\ queueProcessing' = r.queueProcessing
                     /\ activeDownloadProcess' = r.active
                     /\ procs' = r.procs
                     /\ result' = IF r.threw
                          THEN [call |-> "start-download", success |-> FALSE,
                                error |-> "TypeError"]
                          ELSE [call |-> "start-download", success |-> TRUE,
                                error |-> ""]
             ELSE /\ UNCHANGED <<queueProcessing, activeDownloadProcess, procs>>
                  /\ result' = [call |-> "start-download", success |-> TRUE,
                                error |-> ""]
  /\ op' = "start-download"
  /\ UNCHANGED <<mainWindow, sent, uncaught, shifted, cancelled, cleared>>
  /\ UNCHANGED pureVars

\* The ids of the QueueItems in q.
Ids(q) == {q[i].id : i \in DOMAIN q}

\* cancel-download without `downloadQueue.length = 0`: the worker is killed
\* and the queue is left as it is.
CancelDownloadKeepsQueue ==
  /\ ~ErrorPending
  /\ downloadQueue' = downloadQueue
  /\ cancelled' = cancelled \cup Ids(downloadQueue)
  /\ IF activeDownloadProcess # Null
       THEN /\ procs' = [procs EXCEPT
                           ![activeDownloadProcess].signalled = TRUE]
            /\ activeDownloadProcess' = Null
            /\ cleared' = cleared \cup (Ids(downloadQueue) \ Spawned)
            /\ result' = [call |-> "cancel-download", success |-> TRUE,
                          error |-> ""]
       ELSE /\ UNCHANGED <<procs, activeDownloadProcess, cleared>>
            /\ result' = [call |-> "cancel-download", success |-> FALSE,
                          error |-> "No active download"]
  /\ op' = "cancel-download"
  /\ UNCHANGED <<mainWindow, queueProcessing, jobs, sent, uncaught, shifted>>
  /\ UNCHANGED pureVars

\* ipcMain.handle("cancel-download")
CancelDownload ==
  /\ ~ErrorPending
  /\ downloadQueue' = << >>
  /\ cancelled' = cancelled \cup Ids(downloadQueue)
  /\ IF activeDownloadProcess # Null
       THEN /\ procs' = [procs EXCEPT
                           ![activeDownloadProcess].signalled = TRUE]
            /\ activeDownloadProcess' = Null
            /\ cleared' = cleared \cup (Ids(downloadQueue) \ Spawned)
            /\ result' = [call |-> "cancel-download", success |-> TRUE,
                          error |-> ""]
       ELSE /\ UNCHANGED <<procs, activeDownloadProcess, cleared>>
            /\ result' = [call |-> "cancel-download", success |-> FALSE,
                          error |-> "No active download"]
  /\ op' = "cancel-download"
  /\ UNCHANGED <<mainWindow, queueProcessing, jobs, sent, uncaught, shifted>>
  /\ UNCHANGED pureVars

\* The tail shared by the 'close' and 'error' handlers of worker p:
\* activeDownloadProcess = null; send(event); downloadQueue.shift();
\* processQueue().
ExitHandler(p, event, exit, spawnOk) ==
  LET q  == Shift(downloadQueue)
      ps == [procs EXCEPT ![p].state =
               IF event.channel = "download-error" THEN "errored"
                                                   ELSE "closed",
                          ![p].exit = exit]
      r  == processQueue(q, Null, ps, spawnOk)
  IN /\ sent' = Append(sent, event)
     /\ downloadQueue' = q
     /\ shifted' = IF Len(downloadQueue) = 0 THEN shifted
                   ELSE shifted \cup {<<p, downloadQueue[1].id>>}
     /\ queueProcessing' = r.queueProcessing
     /\ activeDownloadProcess' = r.active
     /\ procs' = r.procs
     /\ uncaught' = (uncaught \/ r.threw)
     /\ UNCHANGED <<mainWindow, jobs, result, cancelled, cleared>>
     /\ UNCHANGED pureVars

\* proc.on("close", (code) => ...) for worker p.
Close(p, code, spawnOk) ==
  /\ ~ErrorPending
  /\ p \in DOMAIN procs
  /\ \/ procs[p].state = "running" /\ code \in ExitCodes
     \/ procs[p].state = "errored" /\ code = SpawnErrno
  /\ ExitHandler(p, [channel |-> "download-complete", proc |-> p,
                     job |-> procs[p].job, code |-> NormalizeCode(code),
                     message |-> ""], code, spawnOk)
  /\ op' = "close"

\* proc.on("error", (err) => ...) for worker p, whose spawn failed.
Error(p, spawnOk) ==
  /\ p \in DOMAIN procs
  /\ procs[p].state = "spawnfail"
  /\ ExitHandler(p, [channel |-> "download-error", proc |-> p,
                     job |-> procs[p].job, code |-> Null,
                     message |-> "spawn ENOENT"], Null, spawnOk)
  /\ op' = "error"

\* The manager on its own: no renderer is attached to it.
Next ==
  \/ CreateWindow /\ UNCHANGED rendererVars
  \/ StartDownloadNoWindow /\ UNCHANGED rendererVars
  \/ \E e \in EpisodeLists, ok \in BOOLEAN :
       StartDownload(e, ok) /\ UNCHANGED rendererVars
  \/ CancelDownload /\ UNCHANGED rendererVars
  \/ \E p \in 1..MaxJobs, c \in ExitCodes \cup {SpawnErrno}, ok \in BOOLEAN :
       Close(p, c, ok) /\ UNCHANGED rendererVars
  \/ \E p \in 1..MaxJobs, ok \in BOOLEAN :
       Error(p, ok) /\ UNCHANGED rendererVars

Spec == Init /\ [][Next]_vars

\* Every worker delivers the events Node owes it: 'error' after a failed
\* spawn, 'close' after the process ended.
Fairness ==
  \A p \in 1..MaxJobs :
    /\ WF_vars(\E c \in ExitCodes \cup {SpawnErrno}, ok \in BOOLEAN :
                 Close(p, c, ok) /\ UNCHANGED rendererVars)
    /\ WF_vars(\E ok \in BOOLEAN : Error(p, ok) /\ UNCHANGED rendererVars)

FairSpec == Spec /\ Fairness

\* ================================================================ claims ==

\* Every job created so far carries at least one episode (what the renderer
\* sends: startDownloadFlow returns early on an empty selection).
AllJobsHaveEpisodes == \A j \in DOMAIN jobs : Len(jobs[j]) > 0

\* A run without the two irregular inputs: every job carries episodes and
\* every spawn succeeded. Once false it stays false.
PlainRun == AllJobsHaveEpisodes /\ \A p \in DOMAIN procs : procs[p].ok

\* The send calls made by the handlers of worker p on the given channel.
Events(p, channel) ==
  {i \in DOMAIN sent : sent[i].proc = p /\ sent[i].channel = channel}

\* C1: in every reachable state at most one worker process spawned by
\* processQueue is live (spawned, its exit not yet delivered).
C1_AtMostOneLiveWorker == Cardinality(Live) <= 1

\* C2: an entry that an exit handler ('close' or 'error') removes from
\* downloadQueue is the job the handler's worker was spawned for; a job
\* that never had a worker is never removed by an exit handler. Stated for
\* plain runs; a violation there is a violation of the claim.
C2_ExitRemovesOwnJob ==
  PlainRun => \A s \in shifted : s[2] = procs[s[1]].job /\ s[2] \in Spawned

\* C3: given that every worker delivers its exit events, every job that
\* start-download put in the queue and that was not in the queue at a
\* cancel-download call eventually has a worker spawned for it. Stated for
\* plain runs; a violation there is a violation of the claim.
C3_EveryJobGetsWorker ==
  \A j \in 1..MaxJobs :
    (j \in DOMAIN jobs) ~> (j \in Spawned \/ j \in cancelled \/ ~PlainRun)

\* C4: a start-download request that arrives while activeDownloadProcess is
\* null spawns the worker for the head of the queue within the call; one that
\* arrives while a job is active appends the job and spawns nothing. Stated
\* for plain runs; a violation there is a violation of the claim.
C4_StartSpawnsIffNoActive ==
  [][(op' = "start-download" /\ mainWindow /\ PlainRun')
       => IF activeDownloadProcess = Null
            THEN /\ Len(procs') = Len(procs) + 1
                 /\ procs'[Len(procs')].job = downloadQueue'[1].id
            ELSE /\ procs' = procs
                 /\ Len(downloadQueue') = Len(downloadQueue) + 1
                 /\ SubSeq(downloadQueue', 1, Len(downloadQueue))
                      = downloadQueue]_vars

\* C5: workers are spawned in submission order, and a worker is spawned only
\* after the exit event of every earlier job's worker has been handled.
C5_SpawnInOrderAfterExit ==
  [][Len(procs') > Len(procs)
       => \A p \in DOMAIN procs :
            /\ procs[p].job < procs'[Len(procs')].job
            /\ procs'[p].state \in {"errored", "closed"}]_vars

\* C6: a cancel-download call made while activeDownloadProcess is set sends
\* SIGTERM to that worker, which is a running process, and leaves
\* downloadQueue empty, and no job that was waiting in the queue at such a
\* call ever has a worker spawned.
C6_CancelKillsAndClears ==
  /\ [][(op' = "cancel-download" /\ activeDownloadProcess # Null)
          => /\ activeDownloadProcess \in Live
             /\ procs'[activeDownloadProcess].signalled
             /\ downloadQueue' = << >>]_vars
  /\ [](cleared \cap Spawned = {})

\* C6 witness: a cancel cleared waiting jobs, killed the active worker, and
\* that worker's exit has since been handled.
C6_Witness ==
  /\ cleared # {}
  /\ downloadQueue = << >>
  /\ \E p \in DOMAIN procs : procs[p].signalled /\ procs[p].state = "closed"

\* C7: a cancel-download call made while activeDownloadProcess is null leaves
\* downloadQueue and queueProcessing as they were, signals no process and
\* returns 'No active download'. Stated for plain runs; a violation there is
\* a violation of the claim.
C7_CancelIdleIsNoOp ==
  [][(op' = "cancel-download" /\ activeDownloadProcess = Null /\ PlainRun)
       => /\ downloadQueue' = downloadQueue
          /\ queueProcessing' = queueProcessing
          /\ procs' = procs
          /\ result' = [call |-> "cancel-download", success |-> FALSE,
                        error |-> "No active download"]]_vars

\* C8: for every worker that was spawned, once its exit is handled exactly one
\* download-complete event has been sent for it, to its job's window, with the
\* exit code, a null code replaced by 1; before that, none has been sent.
C8_OneCompletePerExit ==
  \A p \in DOMAIN procs :
    procs[p].ok =>
      LET done == Events(p, "download-complete")
      IN IF procs[p].state = "closed"
           THEN /\ Cardinality(done) = 1
                /\ \A i \in done :
                     /\ sent[i].job = procs[p].job
                     /\ sent[i].code = IF procs[p].exit = NullCode
                                         THEN 1 ELSE procs[p].exit
           ELSE done = {}

\* C8 witness: a worker killed by cancel exited with a null code and its
\* download-complete event carries 1; another exited with its own code.
C8_Witness ==
  /\ \E p \in DOMAIN procs :
       /\ procs[p].ok /\ procs[p].signalled /\ procs[p].state = "closed"
       /\ procs[p].exit = NullCode
       /\ \E i \in Events(p, "download-complete") : sent[i].code = 1
  /\ \E p \in DOMAIN procs :
       /\ procs[p].ok /\ procs[p].state = "closed" /\ procs[p].exit = 2
       /\ \E i \in Events(p, "download-complete") : sent[i].code = 2

\* C9: for a worker whose spawn failed, exactly one download-error event with
\* the OS error message is sent and no download-complete event is sent.
C9_SpawnFailureSendsOnlyError ==
  \A p \in DOMAIN procs :
    (~procs[p].ok /\ procs[p].state # "spawnfail") =>
      /\ Cardinality(Events(p, "download-error")) = 1
      /\ \A i \in Events(p, "download-error") :
           sent[i].message = "spawn ENOENT"
      /\ Events(p, "download-complete") = {}

\* C10: a start-download request returns a result, and when the result is a
\* failure downloadQueue, queueProcessing and activeDownloadProcess are as
\* they were before the request.
C10_FailedStartLeavesState ==
  [][op' = "start-download"
       => /\ result'.call = "start-download"
          /\ (~result'.success
                => UNCHANGED <<downloadQueue, queueProcessing,
                               activeDownloadProcess>>)]_vars

\* ========================================================= stdout handler ==
\* proc.stdout.on("data") of processQueue. Text is a sequence of atoms, each
\* standing for a run of characters that the handler's regular expressions
\* and includes() tests take as a unit; no atom begins with a character that
\* could extend a match that ends the atom before it, so a test on the atoms
\* is the test on the characters.
\*   cr, lf   "\r", "\n"            sp       " "
\*   text     "..."                 ep n     "Ep.<n>"
\*   stats n  "[##] <n>% | 1MB/2MB | 1MB/s | 00:01 | ETA: 00:02"
\*   done     "Done in"             skip     "SKIP"
\*   skipn n  "SKIP <n>_"           idx n    "[<n>/9]"
\*   failed   "FAILED"              xrun     "XXXXXXXXXX"
\*   marker m "[INFO]", "[COMPLETE]", "[DOWNLOADING]", "[ERROR]", "[WARNING]"

\* Length of the text a worker writes to stdout over one run.
MaxText == 4

Atom(k, n) == [k |-> k, n |-> n]

\* The atoms the checked texts are made of.
Atoms ==
  {Atom("cr", 0), Atom("lf", 0), Atom("sp", 0), Atom("ep", 5),
   Atom("stats", 68), Atom("done", 0), Atom("skip", 0), Atom("skipn", 7),
   Atom("skipn", 0), Atom("idx", 1), Atom("failed", 0), Atom("marker", 1)}

\* Sequences over S of length lo..hi.
SeqsOf(S, lo, hi) == UNION {[1..n -> S] : n \in lo..hi}

IsTerminator(a) == a.k \in {"cr", "lf"}

\* Index of the first element of s at or after i that satisfies kinds, or 0.
RECURSIVE FirstAt(_, _, _)
FirstAt(s, i, kinds) ==
  IF i > Len(s) THEN 0
  ELSE IF s[i].k \in kinds THEN i
  ELSE FirstAt(s, i + 1, kinds)

\* Index of the first element of s at or after i whose kind is not in kinds,
\* or Len(s) + 1.
RECURSIVE FirstNotAt(_, _, _)
FirstNotAt(s, i, kinds) ==
  IF i > Len(s) THEN Len(s) + 1
  ELSE IF s[i].k \notin kinds THEN i
  ELSE FirstNotAt(s, i + 1, kinds)

\* buffer.split(/[\r\n]+/): the pieces between runs of terminators; the last
\* piece is the text after the last terminator (empty when there is none).
RECURSIVE SplitLines(_)
SplitLines(s) ==
  LET t == FirstAt(s, 1, {"cr", "lf"})
  IN IF t = 0 THEN <<s>>
     ELSE LET r == FirstNotAt(s, t, {"cr", "lf"})
          IN <<SubSeq(s, 1, t - 1)>> \o SplitLines(SubSeq(s, r, Len(s)))

\* rawLine.trim()
RECURSIVE TrimEnd(_)
TrimEnd(s) ==
  IF Len(s) > 0 /\ s[Len(s)].k = "sp" THEN TrimEnd(SubSeq(s, 1, Len(s) - 1))
  ELSE s

Trim(s) == TrimEnd(SubSeq(s, FirstNotAt(s, 1, {"sp"}), Len(s)))

\* line.includes(...) for the literals of the handler.
Includes(line, kinds) == FirstAt(line, 1, kinds) # 0

\* The progress pattern /Ep\.(\d+).*?(\d+\.?\d*)%\s*\|...ETA:\s*(\S+)/: the
\* leftmost episode tag with a statistics block after it; 0 when no match.
ProgressEp(line) == FirstAt(line, 1, {"ep"})

ProgressStats(line) ==
  IF ProgressEp(line) = 0 THEN 0
  ELSE FirstAt(line, ProgressEp(line) + 1, {"stats"})

\* The ETA capture (\S+): the block's own token and what follows it up to the
\* next white space.
EtaOf(line, st) ==
  <<"00:02">> \o SubSeq(line, st + 1, FirstAt(line \o <<Atom("sp", 0)>>,
                                              st + 1, {"sp"}) - 1)

\* The branch of the if / else-if chain that a trimmed line takes.
BranchLogFirst(line) ==
  IF Includes(line, {"marker"}) THEN "log"
  ELSE IF ProgressStats(line) # 0 THEN "progress"
  ELSE IF Includes(line, {"done"}) THEN "done"
  ELSE IF Includes(line, {"skip", "skipn"}) THEN "skip"
  ELSE IF Includes(line, {"failed", "xrun"}) THEN "failure"
  ELSE "none"

Branch(line) ==
  IF ProgressStats(line) # 0 THEN "progress"
  ELSE IF Includes(line, {"done"}) THEN "done"
  ELSE IF Includes(line, {"skip", "skipn"}) THEN "skip"
  ELSE IF Includes(line, {"failed", "xrun"}) THEN "failure"
  ELSE IF Includes(line, {"marker"}) THEN "log"
  ELSE "none"

\* win.webContents.send("download-progress", {episode, percent, status,
\* cartoonId}) of the done, skip and failure branches.
StatusEventPercent100(episode, percent, status) ==
  [channel |-> "download-progress", episode |-> episode, percent |-> 100,
   downloaded |-> "", total |-> "", speed |-> "", eta |-> << >>,
   status |-> status]

StatusEvent(episode, percent, status) ==
  [channel |-> "download-progress", episode |-> episode, percent |-> percent,
   downloaded |-> "", total |-> "", speed |-> "", eta |-> << >>,
   status |-> status]

\* epNum of the SKIP branch: skipEpMatch ? parseInt(skipEpMatch[1])
\* : skipIdxMatch ? parseInt(skipIdxMatch[1]) : 0.
SkipEpisodeIndexFirst(line) ==
  LET skipIdxMatch == FirstAt(line, 1, {"idx"})
      skipEpMatch  == FirstAt(line, 1, {"skipn"})
  IN IF skipIdxMatch # 0 THEN line[skipIdxMatch].n
     ELSE IF skipEpMatch # 0 THEN line[skipEpMatch].n
     ELSE 0

SkipEpisode(line) ==
  LET skipIdxMatch == FirstAt(line, 1, {"idx"})
      skipEpMatch  == FirstAt(line, 1, {"skipn"})
  IN IF skipEpMatch # 0 THEN line[skipEpMatch].n
     ELSE IF skipIdxMatch # 0 THEN line[skipIdxMatch].n
     ELSE 0

\* The events the handler sends for one trimmed, non-empty line: a sequence
\* of zero or one win.webContents.send calls.
LineEvents(line) ==
  CASE Branch(line) = "progress" ->
         <<[channel |-> "download-progress",
            episode |-> line[ProgressEp(line)].n,
            percent |-> line[ProgressStats(line)].n,
            downloaded |-> "1MB", total |-> "2MB", speed |-> "1MB/s",
            eta |-> EtaOf(line, ProgressStats(line)),
            status |-> ""]>>
    [] Branch(line) = "done" ->
         IF FirstAt(line, 1, {"ep"}) # 0
           THEN <<StatusEvent(line[FirstAt(line, 1, {"ep"})].n, 100, "done")>>
           ELSE << >>
    [] Branch(line) = "skip" ->
         IF SkipEpisode(line) > 0
           THEN <<StatusEvent(SkipEpisode(line), 100, "skipped")>>
           ELSE << >>
    [] Branch(line) = "failure" ->
         IF FirstAt(line, 1, {"ep"}) # 0
           THEN <<StatusEvent(line[FirstAt(line, 1, {"ep"})].n, 0, "failed")>>
           ELSE << >>
    [] Branch(line) = "log" ->
         <<[channel |-> "download-log", line |-> line]>>
    [] OTHER -> << >>

\* for (const rawLine of lines) { const line = rawLine.trim();
\*                                if (!line) continue; ... }
RECURSIVE LinesEvents(_)
LinesEvents(lines) ==
  IF Len(lines) = 0 THEN << >>
  ELSE (IF Trim(lines[1]) = << >> THEN << >> ELSE LineEvents(Trim(lines[1])))
       \o LinesEvents(Tail(lines))

\* lines.pop() leaves the completed lines; the popped last piece is the new
\* buffer.
CompletedLines(lines) == SubSeq(lines, 1, Len(lines) - 1)

\* Whether a chunk has arrived while the carry-over buffer held the start of
\* a line (kept in pc, a record of the run that the handler does not read).
Arrival(data) == IF buffer # << >> THEN "stdout, line split" ELSE pc

\* proc.stdout.on("data", (data) => ...) for one chunk.
StdoutDataNoCarry(data) ==
  /\ pc \in {"stdout", "stdout, line split"}
  /\ Len(input) + Len(data) <= MaxText
  /\ LET lines == SplitLines(buffer \o data)
     IN /\ buffer' = << >>
        /\ sent' = sent \o LinesEvents(lines)
  /\ input' = input \o data
  /\ pc' = Arrival(data)
  /\ UNCHANGED <<seasons, seenUrls, results, decoded>>
  /\ UNCHANGED managerVars
  /\ UNCHANGED rendererVars
  /\ UNCHANGED callVars

StdoutDataForgetsCarry(data) ==
  /\ pc \in {"stdout", "stdout, line split"}
  /\ Len(input) + Len(data) <= MaxText
  /\ LET lines == SplitLines(data)
     IN /\ buffer' = lines[Len(lines)]
        /\ sent' = sent \o LinesEvents(CompletedLines(lines))
  /\ input' = input \o data
  /\ pc' = Arrival(data)
  /\ UNCHANGED <<seasons, seenUrls, results, decoded>>
  /\ UNCHANGED managerVars
  /\ UNCHANGED rendererVars
  /\ UNCHANGED callVars

StdoutData(data) ==
  /\ pc \in {"stdout", "stdout, line split"}
  /\ Len(input) + Len(data) <= MaxText
  /\ LET lines == SplitLines(buffer \o data)
     IN /\ buffer' = lines[Len(lines)]
        /\ sent' = sent \o LinesEvents(CompletedLines(lines))
  /\ input' = input \o data
  /\ pc' = Arrival(data)
  /\ UNCHANGED <<seasons, seenUrls, results, decoded>>
  /\ UNCHANGED managerVars
  /\ UNCHANGED rendererVars
  /\ UNCHANGED callVars

\* A worker has been spawned and has written nothing yet: `let buffer = ""`.
ParserInit ==
  /\ ManagerInit
  /\ RendererInit
  /\ CallIdle
  /\ sent = << >>
  /\ input = << >>
  /\ pc = "stdout"
  /\ buffer = << >>
  /\ seasons = << >>
  /\ seenUrls = {}
  /\ results = << >>
  /\ decoded = << >>

ParserNext ==
  \E data \in SeqsOf(Atoms, 1, MaxText - Len(input)) : StdoutData(data)

ParserSpec == ParserInit /\ [][ParserNext]_vars

\* ------------------------------------------------- claims on the parser --
\* Index of the last terminator of s, or 0.
LastTerminator(s) ==
  IF \E i \in 1..Len(s) : IsTerminator(s[i])
    THEN CHOOSE i \in 1..Len(s) :
           IsTerminator(s[i]) /\ \A j \in (i + 1)..Len(s) : ~IsTerminator(s[j])
    ELSE 0

\* The trimmed, non-empty lines of the received text that a terminator has
\* completed.
RECURSIVE NonEmptyTrimmed(_)
NonEmptyTrimmed(lines) ==
  IF Len(lines) = 0 THEN << >>
  ELSE (IF Trim(lines[1]) = << >> THEN << >> ELSE <<Trim(lines[1])>>)
       \o NonEmptyTrimmed(Tail(lines))

TerminatedLines ==
  NonEmptyTrimmed(SplitLines(SubSeq(input, 1, LastTerminator(input))))

\* C11: whatever the chunking, the events sent are exactly the events of the
\* lines whose terminating CR or LF has been received, and the text after the
\* last terminator is held in the carry-over buffer without producing an
\* event.
C11_EventsOnlyFromTerminatedLines ==
  /\ buffer = SubSeq(input, LastTerminator(input) + 1, Len(input))
  /\ sent = LinesEvents(SplitLines(SubSeq(input, 1, LastTerminator(input))))

\* A line has produced an event while an unterminated fragment that would
\* produce one is held back.
C11_Witness ==
  /\ pc = "stdout"
  /\ Len(sent) > 0
  /\ Trim(buffer) # << >>
  /\ LineEvents(Trim(buffer)) # << >>

\* The rule a line falls under, in the order progress line, done line, skip
\* line, failure line, log line.
C12_Rule(line) ==
  LET hasEp == \E i \in 1..Len(line) : line[i].k = "ep"
      has(kinds) == \E i \in 1..Len(line) : line[i].k \in kinds
  IN IF \E i, j \in 1..Len(line) :
          i < j /\ line[i].k = "ep" /\ line[j].k = "stats" THEN "progress"
     ELSE IF has({"done"}) /\ hasEp THEN "done"
     ELSE IF has({"skip", "skipn"}) THEN "skip"
     ELSE IF has({"failed", "xrun"}) /\ hasEp THEN "failure"
     ELSE IF has({"marker"}) THEN "log"
     ELSE "none"

\* The rule an event answers to.
C12_Kind(e) ==
  IF e.channel = "download-log" THEN "log"
  ELSE IF e.status = "done" THEN "done"
  ELSE IF e.status = "skipped" THEN "skip"
  ELSE IF e.status = "failed" THEN "failure"
  ELSE "progress"

\* events is made of at most one event per line, in line order, each of the
\* kind of its line's rule, and none for a line under no rule.
RECURSIVE C12_AtMostOnePerLine(_, _)
C12_AtMostOnePerLine(lines, events) ==
  IF Len(lines) = 0 THEN events = << >>
  ELSE \/ C12_AtMostOnePerLine(Tail(lines), events)
       \/ /\ Len(events) > 0
          /\ C12_Rule(lines[1]) # "none"
          /\ C12_Kind(events[1]) = C12_Rule(lines[1])
          /\ C12_AtMostOnePerLine(Tail(lines), Tail(events))

\* C12: each completed line that is non-empty after trimming produces at most
\* one event, of the kind of the first rule it matches in the order progress,
\* done, skip, failure, log; a line matching no rule produces none.
C12_FirstMatchingRuleDecides ==
  /\ C12_AtMostOnePerLine(TerminatedLines, sent)
  /\ Len(TerminatedLines) = 1 /\ C12_Rule(TerminatedLines[1]) = "none"
       => sent = << >>

\* A completed line that matches two rules has produced the event of the
\* earlier one.
C12_Witness ==
  /\ Len(TerminatedLines) = 1
  /\ C12_Rule(TerminatedLines[1]) = "done"
  /\ \E i \in 1..Len(TerminatedLines[1]) : TerminatedLines[1][i].k = "marker"
  /\ Len(sent) = 1
  /\ sent[1].channel = "download-progress"
  /\ sent[1].status = "done"

\* A Progress event in sent that carries an episode number read from line.
C13_ProgressFrom(line) ==
  \E i \in 1..Len(sent) :
    /\ sent[i].channel = "download-progress"
    /\ \E j \in 1..Len(line) :
         line[j].k \in {"ep", "skipn", "idx"} /\ line[j].n = sent[i].episode

\* C13: every completed line that contains one of the markers [INFO],
\* [COMPLETE], [DOWNLOADING], [ERROR], [WARNING] and yields no Progress event
\* is sent verbatim as a download-log event, also when it contains 'Done in',
\* 'SKIP' or 'FAILED' without a resolvable episode number.
C13_MarkerLinesReachLog ==
  \A l \in 1..Len(TerminatedLines) :
    (\E i \in 1..Len(TerminatedLines[l]) : TerminatedLines[l][i].k = "marker")
      => \/ C13_ProgressFrom(TerminatedLines[l])
         \/ \E i \in 1..Len(sent) :
              /\ sent[i].channel = "download-log"
              /\ sent[i].line = TerminatedLines[l]

\* A completed line that matches the progress pattern with episode tag ep and
\* percentage pct.
C14_ProgressLine(ep, pct) ==
  \E l \in 1..Len(TerminatedLines) :
    \E i, j \in 1..Len(TerminatedLines[l]) :
      /\ i < j
      /\ TerminatedLines[l][i] = Atom("ep", ep)
      /\ TerminatedLines[l][j] = Atom("stats", pct)

\* C14: every download-progress event sent has percent 100 when its status is
\* done or skipped and percent 0 when its status is failed; an event without
\* status comes from a progress line and carries that line's episode and
\* percentage with downloaded, total, speed and eta all populated.
C14_StatusFixesPercent ==
  \A i \in 1..Len(sent) :
    sent[i].channel = "download-progress" =>
      /\ sent[i].status \in {"", "done", "skipped", "failed"}
      /\ sent[i].status \in {"done", "skipped"} => sent[i].percent = 100
      /\ sent[i].status = "failed" => sent[i].percent = 0
      /\ sent[i].status = "" =>
           /\ C14_ProgressLine(sent[i].episode, sent[i].percent)
           /\ sent[i].downloaded # ""
           /\ sent[i].total # ""
           /\ sent[i].speed # ""
           /\ sent[i].eta # << >>

\* A failure line with an episode tag has been reported.
C14_Witness ==
  /\ pc = "stdout"
  /\ \E i \in 1..Len(sent) :
       /\ sent[i].channel = "download-progress"
       /\ sent[i].status = "failed"
       /\ sent[i].percent = 0
       /\ sent[i].episode = 5

\* ------------------------------------------ further claims on the parser --
\* C24: the events sent for a worker's stdout depend only on the
\* concatenation of the chunks: however the text was split into chunks, the
\* events are those the handler sends when the whole text arrives as one
\* chunk, in the same order.
C24_ChunkingIrrelevant ==
  sent = LinesEvents(CompletedLines(SplitLines(input)))

\* A chunk boundary has fallen inside a line that has since been completed
\* and has produced an event.
C24_Witness ==
  /\ pc = "stdout, line split"
  /\ Len(TerminatedLines) = 1
  /\ Len(sent) = 1
  /\ buffer = << >>

\* A completed line that contains SKIP, does not match the progress pattern
\* and does not contain 'Done in'.
C25_SkipLine(line) ==
  /\ \E i \in 1..Len(line) : line[i].k \in {"skip", "skipn"}
  /\ ~\E i, j \in 1..Len(line) :
        i < j /\ line[i].k = "ep" /\ line[j].k = "stats"
  /\ ~\E i \in 1..Len(line) : line[i].k = "done"

\* The episode number of a skip line: the digits of its first
\* 'SKIP <digits>_' token, otherwise the index of its first '[i/total]'
\* token, otherwise 0.
C25_Number(line) ==
  LET tokens(k) == {i \in 1..Len(line) : line[i].k = k}
      first(k) == CHOOSE i \in tokens(k) : \A j \in tokens(k) : i <= j
  IN IF tokens("skipn") # {} THEN line[first("skipn")].n
     ELSE IF tokens("idx") # {} THEN line[first("idx")].n
     ELSE 0

MaxChildren == 6

Header == [kind |-> "volume-title", number |-> 0, id |-> 0]

Link(n, id) == [kind |-> "goto-chapter", number |-> n, id |-> id]

Shortcut(id) == [kind |-> "shortcut", number |-> 0, id |-> id]

Filtered(id) == [kind |-> "filtered", number |-> 0, id |-> id]

\* The elements the checked pages are made of.
Elements ==
  {Header} \cup {Link(n, 0) : n \in {0, 1, 2, 3, 7}}
           \cup {Link(1, 1), Shortcut(1), Filtered(1)}

\* currentEpisodes.push({number: epNumber, title: epTitle, href: epHref});
\* the title is kept as the number it parses to.
Episode(link) == [number |-> link.number, title |-> link.number, href |-> link.id]

\* seasons.push({name: currentSeasonName || `全 ${n} 話`, episodes})
Season(name, episodes) == [name |-> name, episodes |-> episodes]

\* Primary strategy: $container.children().each(...) from child i on, with
\* the walk's currentSeasonName, currentEpisodes, seenChapterIds and seasons.
RECURSIVE PrimaryWalk(_, _, _, _, _, _)
PrimaryWalk(page, i, name, current, seen, acc) ==
  IF i > Len(page)
    THEN IF Len(current) > 0 THEN Append(acc, Season(name, current)) ELSE acc
  ELSE IF page[i].kind = "volume-title"
    THEN PrimaryWalk(page, i + 1, "volume", << >>, seen,
                     IF Len(current) > 0
                       THEN Append(acc, Season(name, current)) ELSE acc)
  ELSE IF page[i].kind = "filtered"
    THEN PrimaryWalk(page, i + 1, name, current, seen, acc)
  ELSE IF page[i].id # 0 /\ page[i].id \in seen
    THEN PrimaryWalk(page, i + 1, name, current, seen, acc)
  ELSE PrimaryWalk(page, i + 1, name,
                   IF page[i].kind = "shortcut" THEN current
                   ELSE Append(current, Episode(page[i])),
                   IF page[i].id # 0 THEN seen \cup {page[i].id} ELSE seen,
                   acc)

\* Fallback strategy: allEpisodeLinks.each(...) from link i on.
RECURSIVE FallbackCollect(_, _, _, _)
FallbackCollect(page, i, episodes, seen) ==
  IF i > Len(page) THEN episodes
  ELSE IF page[i].kind = "filtered"
    THEN FallbackCollect(page, i + 1, episodes, seen)
  ELSE IF page[i].id # 0 /\ page[i].id \in seen
    THEN FallbackCollect(page, i + 1, episodes, seen)
  ELSE FallbackCollect(page, i + 1,
                       IF page[i].kind = "shortcut" THEN episodes
                       ELSE Append(episodes, Episode(page[i])),
                       IF page[i].id # 0 THEN seen \cup {page[i].id} ELSE seen)

\* episodes.sort((a, b) => a.number - b.number): a stable sort, so episodes
\* of equal number keep their order.
RECURSIVE InsertByNumber(_, _)
InsertByNumber(sorted, e) ==
  IF Len(sorted) = 0 THEN <<e>>
  ELSE IF sorted[Len(sorted)].number <= e.number THEN Append(sorted, e)
  ELSE Append(InsertByNumber(SubSeq(sorted, 1, Len(sorted) - 1), e),
              sorted[Len(sorted)])

RECURSIVE SortByNumber(_)
SortByNumber(episodes) ==
  IF Len(episodes) = 0 THEN << >>
  ELSE InsertByNumber(SortByNumber(SubSeq(episodes, 1, Len(episodes) - 1)),
                      episodes[Len(episodes)])

\* let seqNum = 1; for (const ep of episodes) {
\*   if (ep.number === 0) ep.number = seqNum; seqNum = ep.number + 1; }
RECURSIVE FixNumbers(_, _)
FixNumbers(episodes, seqNum) ==
  IF Len(episodes) = 0 THEN << >>
  ELSE LET n == IF episodes[1].number = 0 THEN seqNum ELSE episodes[1].number
       IN <<[episodes[1] EXCEPT !.number = n]>>
          \o FixNumbers(Tail(episodes), n + 1)

\* The primary strategy is taken when $(".volume-title").first().parent()
\* exists.
HasContainer(page) == \E i \in 1..Len(page) : page[i].kind = "volume-title"

\* The seasons as the chosen strategy leaves them, before the pass over all
\* seasons.
ExtractedSeasons(page) ==
  IF HasContainer(page)
    THEN PrimaryWalk(page, 1, "all", << >>, {}, << >>)
    ELSE LET episodes ==
               FixNumbers(SortByNumber(FallbackCollect(page, 1, << >>, {})), 1)
         IN IF Len(episodes) > 0 THEN <<Season("all", episodes)>> ELSE << >>

\* for (const season of seasons) { season.episodes.sort(...); ... }
SortAndFix(ss) ==
  [s \in 1..Len(ss) |->
     [ss[s] EXCEPT !.episodes = FixNumbers(SortByNumber(@), 1)]]

\* getAnimeDetail, as far as the seasons of its result go.
GetAnimeDetail ==
  /\ pc = "detail"
  /\ seasons' = SortAndFix(ExtractedSeasons(input))
  /\ pc' = "done"
  /\ UNCHANGED <<input, buffer, seenUrls, results, decoded, sent>>
  /\ UNCHANGED managerVars
  /\ UNCHANGED rendererVars
  /\ UNCHANGED callVars

\* A detail page has been fetched.
DetailInit ==
  /\ ManagerInit
  /\ RendererInit
  /\ CallIdle
  /\ sent = << >>
  /\ input \in SeqsOf(Elements, 0, MaxChildren)
  /\ pc = "detail"
  /\ buffer = << >>
  /\ seasons = << >>
  /\ seenUrls = {}
  /\ results = << >>
  /\ decoded = << >>

DetailNext == GetAnimeDetail

DetailSpec == DetailInit /\ [][DetailNext]_vars

\* ----------------------------------------- claims on the episode lists --
\* The numbers of a sequence of episodes.
Numbers(episodes) == [i \in 1..Len(episodes) |-> episodes[i].number]

\* C15: in every detail returned, by the primary or the fallback strategy,
\* the episodes of each season have strictly ascending numbers.
C15_StrictlyAscending ==
  pc = "done" =>
    \A s \in 1..Len(seasons) :
      \A i, j \in 1..Len(seasons[s].episodes) :
        i < j => seasons[s].episodes[i].number < seasons[s].episodes[j].number

\* C16: the episode sequence of each season is sorted non-decreasing by
\* number, whatever the mix of resolved and unresolved (zero) raw numbers.
C16_SortedByNumber ==
  pc = "done" =>
    \A s \in 1..Len(seasons) :
      \A i \in 1..(Len(seasons[s].episodes) - 1) :
        seasons[s].episodes[i].number <= seasons[s].episodes[i + 1].number

\* Every resolved number kept, every unresolved one replaced by 1 + the
\* number before it (1 at the head), over raw numbers in the given order.
RECURSIVE C17_Filled(_, _)
C17_Filled(raw, previous) ==
  IF Len(raw) = 0 THEN << >>
  ELSE LET n == IF raw[1] = 0 THEN previous + 1 ELSE raw[1]
       IN <<n>> \o C17_Filled(Tail(raw), n)

\* C17: the pass over all seasons keeps every resolved number and gives each
\* unresolved episode 1 + the previous resolved number, so that raw numbers
\* [0, 0, 3, 0, 7] come out as [1, 2, 3, 4, 7].
C17_UnresolvedFollowPrevious ==
  pc = "done" =>
    /\ Len(seasons) = Len(ExtractedSeasons(input))
    /\ \A s \in 1..Len(seasons) :
         Numbers(seasons[s].episodes) =
           C17_Filled(Numbers(ExtractedSeasons(input)[s].episodes), 0)

\* C18: the fallback strategy on anchors numbered [2, 0, 1] produces exactly
\* one season, numbered [1, 2, 3].
C18_FallbackExample ==
  pc = "done" /\ input = <<Link(2, 0), Link(0, 0), Link(1, 0)>> =>
    /\ Len(seasons) = 1
    /\ Numbers(seasons[1].episodes) = <<1, 2, 3>>

\* ------------------------------------ further claims on the episode lists --
\* The episodes returned, over all seasons, whose href carries chapter id.
C28_Returned(id) ==
  {<<s, e>> \in (1..Len(seasons)) \X (1..MaxChildren) :
     e <= Len(seasons[s].episodes) /\ seasons[s].episodes[e].href = id}

\* C28: every chapter_id that occurs on at least one acceptable link of the
\* page appears exactly once among the returned episodes, over all seasons;
\* a rejected shortcut link never causes a real episode with the same
\* chapter_id to be dropped.
C28_ChapterOnce ==
  pc = "done" =>
    \A i \in 1..Len(input) :
      (input[i].kind = "goto-chapter" /\ input[i].id # 0)
        => Cardinality(C28_Returned(input[i].id)) = 1

\* C29: for the same sequence of accepted episodes forming one season, the
\* primary strategy (one sort-and-renumber pass) and the fallback strategy
\* (the pass applied twice) return the same episode numbers in the same
\* order; the pass is idempotent.
C29_StrategiesAgree ==
  (pc = "done" /\ Len(input) >= 2 /\ input[1] = Header
     /\ \A i \in 2..Len(input) : input[i].kind = "goto-chapter")
    => /\ Len(seasons) = 1
       /\ Numbers(seasons[1].episodes) =
            Numbers(SortAndFix(ExtractedSeasons(Tail(input)))[1].episodes)
       /\ SortAndFix(seasons) = seasons

\* ========================================================== search page ==
\* searchAnime over the anchors a[href*="/detail/"] of the search page, in
\* document order. An href is a sequence of tokens whose concatenation is the
\* attribute's text; an anchor is known by its href, by the length of the
\* longest text among its title elements and by the length of the longest
\* line of its whole text.

\* Number of candidate anchors of a search page.
MaxAnchors == 3

SEARCH_BASE == "https://tw.xgcartoon.com"

\* href attributes: site-relative, absolute, site-relative to another
\* detail page, and relative without a leading slash.
Hrefs ==
  {<<"/", "detail/a">>, <<SEARCH_BASE, "/", "detail/a">>,
   <<"/", "detail/b">>, <<"cat", "/", "detail/a">>}

Anchors == [href : Hrefs, titled : {0, 1, 3}, line : {0, 3}]

\* let detailUrl = href; if (href.startsWith("/")) ... else if
\* (!href.startsWith("http")) ...
DetailUrl(href) ==
  IF href[1] = "/" THEN <<SEARCH_BASE>> \o href
  ELSE IF href[1] # SEARCH_BASE THEN <<SEARCH_BASE, "/">> \o href
  ELSE href

\* Length of the title: the longest title element text, or when there is
\* none the longest line of more than two characters.
TitleLength(anchor) ==
  IF anchor.titled > 0 THEN anchor.titled
  ELSE IF anchor.line > 2 THEN anchor.line
  ELSE 0

\* The each() callback from anchor i on, with seenUrls and results so far;
\* the pair of their final values.
RECURSIVE EachAnchor(_, _, _, _)
EachAnchor(anchors, i, seen, found) ==
  IF i > Len(anchors) THEN <<seen, found>>
  ELSE IF DetailUrl(anchors[i].href) \in seen
    THEN EachAnchor(anchors, i + 1, seen, found)
  ELSE EachAnchor(anchors, i + 1, seen \cup {DetailUrl(anchors[i].href)},
                  IF TitleLength(anchors[i]) > 1
                    THEN Append(found,
                                [title |-> TitleLength(anchors[i]),
                                 detailUrl |-> DetailUrl(anchors[i].href)])
                    ELSE found)

\* searchAnime, as far as the urls and titles of its results go.
SearchAnime ==
  /\ pc = "search"
  /\ seenUrls' = EachAnchor(input, 1, {}, << >>)[1]
  /\ results' = EachAnchor(input, 1, {}, << >>)[2]
  /\ pc' = "done"
  /\ UNCHANGED <<input, buffer, seasons, decoded, sent>>
  /\ UNCHANGED managerVars
  /\ UNCHANGED rendererVars
  /\ UNCHANGED callVars

\* A search page has been fetched.
SearchInit ==
  /\ ManagerInit
  /\ RendererInit
  /\ CallIdle
  /\ sent = << >>
  /\ input \in SeqsOf(Anchors, 0, MaxAnchors)
  /\ pc = "search"
  /\ buffer = << >>
  /\ seasons = << >>
  /\ seenUrls = {}
  /\ results = << >>
  /\ decoded = << >>

SearchNext == SearchAnime

SearchSpec == SearchInit /\ [][SearchNext]_vars

\* ------------------------------------------- claims on the search page --
\* C19: each distinct normalized absolute detail URL that candidate anchors
\* of the page target yields exactly one search result, whichever of the
\* anchors that target it carries the title.
C19_OneResultPerUrl ==
  pc = "done" =>
    \A a \in 1..Len(input) :
      (\E b \in 1..Len(input) :
         /\ DetailUrl(input[b].href) = DetailUrl(input[a].href)
         /\ TitleLength(input[b]) > 1)
        => Cardinality({r \in 1..Len(results) :
                          results[r].detailUrl = DetailUrl(input[a].href)}) = 1

\* ======================================================= entity decoding ==
\* decodeHtmlEntities. A string is a sequence of tokens whose concatenation
\* is its text: "&", the entity names after the ampersand ("amp;", "lt;",
\* "gt;", "quot;", "#39;"), the decoded characters and plain text "x".

\* Length of a string handed to decodeHtmlEntities.
MaxStr == 4

\* The tokens the checked strings are made of.
Tokens == {"&", "amp;", "lt;", "#39;", "x"}

\* str.replace(/&<name>/g, char): every occurrence, left to right, without
\* looking again at what has been replaced.
RECURSIVE ReplaceAll(_, _, _)
ReplaceAll(str, name, char) ==
  IF Len(str) = 0 THEN << >>
  ELSE IF Len(str) >= 2 /\ str[1] = "&" /\ str[2] = name
    THEN <<char>> \o ReplaceAll(SubSeq(str, 3, Len(str)), name, char)
  ELSE <<str[1]>> \o ReplaceAll(Tail(str), name, char)

decodeHtmlEntities(str) ==
  ReplaceAll(ReplaceAll(ReplaceAll(ReplaceAll(ReplaceAll(str,
    "amp;", "&"), "lt;", "<"), "gt;", ">"), "quot;", "\""), "#39;", "'")

\* One call of decodeHtmlEntities: on the input, then on its own output.
Decode ==
  /\ pc \in {"decode", "decoded once"}
  /\ decoded' = Append(decoded,
                       decodeHtmlEntities(IF Len(decoded) = 0 THEN input
                                          ELSE decoded[Len(decoded)]))
  /\ pc' = IF pc = "decode" THEN "decoded once" ELSE "decoded twice"
  /\ UNCHANGED <<input, buffer, seasons, seenUrls, results, sent>>
  /\ UNCHANGED managerVars
  /\ UNCHANGED rendererVars
  /\ UNCHANGED callVars

DecodeInit ==
  /\ ManagerInit
  /\ RendererInit
  /\ CallIdle
  /\ sent = << >>
  /\ input \in SeqsOf(Tokens, 0, MaxStr)
  /\ pc = "decode"
  /\ buffer = << >>
  /\ seasons = << >>
  /\ seenUrls = {}
  /\ results = << >>
  /\ decoded = << >>

DecodeNext == Decode

DecodeSpec == DecodeInit /\ [][DecodeNext]_vars

\* ---------------------------------------- claims on the entity decoding --
\* Number of ampersands of str that do not begin one of the entities
\* &lt; &gt; &quot; &#39;.
C20_Ampersands(str) ==
  Cardinality({i \in 1..Len(str) :
                 /\ str[i] = "&"
                 /\ ~(i < Len(str) /\ str[i + 1] \in {"lt;", "gt;", "quot;", "#39;"})})

\* C20: decoding the output of decodeHtmlEntities again changes nothing, and
\* each "&amp;" of the input has become a single "&": the output has one
\* ampersand for each "&amp;" and each other ampersand of the input that does
\* not begin one of the four other entities.
C20_DecodeIdempotent ==
  /\ Len(decoded) >= 1 =>
       Cardinality({i \in 1..Len(decoded[1]) : decoded[1][i] = "&"})
         = C20_Ampersands(input)
  /\ Len(decoded) = 2 => decoded[2] = decoded[1]

\* ============================================================== fetchUrl ==
\* fetchUrl(url) and the servers it talks to. A url, like a Location header,
\* is a sequence of tokens whose concatenation is its text:
\* <<"https:", "/", "/", "a", "/", "p">> is "https://a/p". A server answers
\* each request for one url in one way: a status (with a Location header or
\* without, with a body for 200), a socket error, or no answer within the
\* timeout.

SiteA == <<"https:", "/", "/", "a", "/", "p">>
SiteB == <<"https:", "/", "/", "b", "/", "p">>

\* The urls a checked server knows; it answers 404 for every other url.
Sites == {SiteA, SiteB}

\* Location headers: root-relative "/p", protocol-relative "//b/p", bare
\* relative "p", and the absolute urls.
Locations ==
  {<<"/", "p">>, <<"/", "/", "b", "/", "p">>, <<"p">>, SiteA, SiteB}

NoLocation == << >>

Response(event, status, location) ==
  [event |-> event, status |-> status, location |-> location]

\* What one url answers.
Responses ==
  {Response("response", 200, NoLocation), Response("response", 404, NoLocation),
   Response("response", 302, NoLocation), Response("error", 0, NoLocation),
   Response("timeout", 0, NoLocation)}
  \cup {Response("response", 302, l) : l \in Locations}

\* The answer of the server to a request for u.
Answer(server, u) ==
  IF u \in DOMAIN server THEN server[u]
  ELSE Response("response", 404, NoLocation)

\* new URL(url).protocol and .host
Protocol(u) == u[1]
Host(u) == u[4]

\* The url fetchUrl recurses on for res.headers.location.
RedirectUrl(u, location) ==
  IF location[1] = "/"
    THEN <<Protocol(u), "/", "/", Host(u)>> \o location
  ELSE IF location[1] \notin {"http:", "https:"}
    THEN <<Protocol(u), "/", "/", Host(u), "/">> \o location
  ELSE location

\* A request made by fetchUrl: its target, and whether it is an odd or an
\* even one in the chain of recursive calls (each call makes a new request).
Request(target, turn) == [target |-> target, turn |-> turn]

\* The response callback on a 3xx status with a Location header:
\* fetchUrl(redirectUrl).then(resolve).catch(reject).
FollowRedirect ==
  /\ pc = "fetch"
  /\ settled.state = "pending"
  /\ LET res == Answer(input.server, url.target)
     IN /\ res.event = "response"
        /\ res.status >= 300 /\ res.status < 400
        /\ res.location # NoLocation
        /\ url' = Request(RedirectUrl(url.target, res.location), 1 - url.turn)
  /\ UNCHANGED <<input, pc, buffer, seasons, seenUrls, results, decoded,
                 settled, args, sent>>
  /\ UNCHANGED managerVars
  /\ UNCHANGED rendererVars

\* The response callback on any other status than 200.
RejectStatus ==
  /\ pc = "fetch"
  /\ settled.state = "pending"
  /\ LET res == Answer(input.server, url.target)
     IN /\ res.event = "response"
        /\ ~(res.status >= 300 /\ res.status < 400 /\ res.location # NoLocation)
        /\ res.status # 200
        /\ settled' = [state |-> "rejected", error |-> "HTTP",
                       status |-> res.status]
  /\ UNCHANGED <<input, pc, buffer, seasons, seenUrls, results, decoded,
                 url, args, sent>>
  /\ UNCHANGED managerVars
  /\ UNCHANGED rendererVars

\* The response callback on status 200, up to the 'end' of the body.
ResolveBody ==
  /\ pc = "fetch"
  /\ settled.state = "pending"
  /\ LET res == Answer(input.server, url.target)
     IN /\ res.event = "response"
        /\ res.status = 200
        /\ settled' = [state |-> "resolved", body |-> url.target]
  /\ UNCHANGED <<input, pc, buffer, seasons, seenUrls, results, decoded,
                 url, args, sent>>
  /\ UNCHANGED managerVars
  /\ UNCHANGED rendererVars

\* req.on("error", reject)
RequestError ==
  /\ pc = "fetch"
  /\ settled.state = "pending"
  /\ Answer(input.server, url.target).event = "error"
  /\ settled' = [state |-> "rejected", error |-> "socket", status |-> 0]
  /\ UNCHANGED <<input, pc, buffer, seasons, seenUrls, results, decoded,
                 url, args, sent>>
  /\ UNCHANGED managerVars
  /\ UNCHANGED rendererVars

\* req.on("timeout", ...)
RequestTimeout ==
  /\ pc = "fetch"
  /\ settled.state = "pending"
  /\ Answer(input.server, url.target).event = "timeout"
  /\ settled' = [state |-> "rejected", error |-> "Timeout", status |-> 0]
  /\ UNCHANGED <<input, pc, buffer, seasons, seenUrls, results, decoded,
                 url, args, sent>>
  /\ UNCHANGED managerVars
  /\ UNCHANGED rendererVars

\* fetchUrl(input.url) has been called and has made its request.
FetchInit ==
  /\ ManagerInit
  /\ RendererInit
  /\ sent = << >>
  /\ input \in [url : Sites, server : [Sites -> Responses]]
  /\ pc = "fetch"
  /\ buffer = << >>
  /\ seasons = << >>
  /\ seenUrls = {}
  /\ results = << >>
  /\ decoded = << >>
  /\ url = Request(input.url, 0)
  /\ settled = [state |-> "pending"]
  /\ args = << >>

FetchNext ==
  \/ FollowRedirect
  \/ RejectStatus
  \/ ResolveBody
  \/ RequestError
  \/ RequestTimeout

FetchSpec == FetchInit /\ [][FetchNext]_vars

\* Every request is answered or times out.
FetchFairness == WF_vars(FetchNext)

FetchFairSpec == FetchSpec /\ FetchFairness

\* ------------------------------------------------------ claims on fetchUrl --
\* C21: fetchUrl always settles: a chain of finitely many redirects that ends
\* in a 200 response resolves with the final body, and a chain that does not
\* end, a cyclic one included, is given up with a rejection instead of being
\* followed forever.
C21_FetchSettles == <>(settled.state # "pending")

\* The url a Location header stands for, seen from the url u that answered
\* with it.
C30_Resolved(u, location) ==
  IF Len(location) >= 2 /\ location[1] = "/" /\ location[2] = "/"
    THEN <<Protocol(u)>> \o location
  ELSE IF location[1] = "/"
    THEN <<Protocol(u), "/", "/", Host(u)>> \o location
  ELSE IF location[1] \in {"http:", "https:"}
    THEN location
  ELSE <<Protocol(u), "/", "/", Host(u), "/">> \o location

\* C30: before fetchUrl recurses, a protocol-relative Location "//host/path"
\* is resolved to the scheme of the original url followed by "//host/path",
\* a root-relative "/path" to the original origin followed by "/path", and a
\* bare relative "path" to the original origin followed by "/path".
C30_LocationResolved ==
  [][url' # url =>
       url'.target =
         C30_Resolved(url.target, Answer(input.server, url.target).location)]_vars

\* ------------------------------------- further claims on the download queue --
\* C22: whenever downloadQueue is non-empty, a worker spawned for the job at
\* its head is live (its exit not yet handled); and queueProcessing is never
\* true while no worker is live. Stated for runs in which every job has
\* episodes and every spawn succeeds.
C22_HeadHasLiveWorker ==
  PlainRun =>
    /\ Len(downloadQueue) > 0 =>
         \E p \in Live : procs[p].job = downloadQueue[1].id
    /\ queueProcessing => Live # {}

\* C23: a cancel-download call made while a worker is live that has not been
\* sent a termination signal sends SIGTERM to such a worker and returns
\* success, never 'No active download'. Stated for runs in which every job
\* has episodes.
C23_CancelReachesLiveWorker ==
  [][(AllJobsHaveEpisodes /\ op' = "cancel-download"
        /\ \E p \in Live : ~procs[p].signalled)
       => /\ result'.success
          /\ \E p \in Live : ~procs[p].signalled /\ procs'[p].signalled]_vars

\* ================================================== the worker's arguments ==
\* The argument list processQueue builds for the job at the head of the
\* queue. An href is a sequence of tokens whose concatenation is its text.

\* Number of episodes of a job.
MaxEpisodes == 3

VIDEO_BASE == "https://tw.xgcartoon.com"

\* Tokens that /[a-zA-Z0-9]+/ matches as a whole.
AlnumTokens == {"abc", "e1"}

\* href values: an absolute and a site-relative video page, a chapter link,
\* a chapter link whose id does not begin with a letter or digit, a bare
\* token, and the empty string.
EpisodeHrefs ==
  {<<VIDEO_BASE, "/video/", "c1/", "e1", ".html">>,
   <<"/video/", "c1/", "e1", ".html">>,
   <<"/play?", "chapter_id=", "abc">>,
   <<"/play?", "chapter_id=", "-">>,
   <<"e1">>,
   << >>}

EpisodeNumbers == {1, 2, 3}

\* DownloadOptions.cartoonId
CartoonId == "c1"

\* firstEp.href.includes("/video/")
IncludesVideo(href) == \E i \in 1..Len(href) : href[i] = "/video/"

\* firstEp.href.match(/chapter_id=([a-zA-Z0-9]+)/): the index of the token
\* captured, or 0.
ChapterMatch(href) ==
  IF \E i \in 1..(Len(href) - 1) :
       href[i] = "chapter_id=" /\ href[i + 1] \in AlnumTokens
    THEN 1 + CHOOSE i \in 1..(Len(href) - 1) :
               /\ href[i] = "chapter_id=" /\ href[i + 1] \in AlnumTokens
               /\ \A j \in 1..(i - 1) :
                    ~(href[j] = "chapter_id=" /\ href[j + 1] \in AlnumTokens)
    ELSE 0

\* videoUrl of processQueue, from the first episode's href.
VideoUrlVerbatim(href, cartoonId) ==
  IF Len(href) > 0 /\ IncludesVideo(href)
    THEN href
  ELSE IF ChapterMatch(href) # 0
    THEN <<VIDEO_BASE, "/video/", cartoonId, "/",
           href[ChapterMatch(href)], ".html">>
  ELSE <<VIDEO_BASE, "/video/", cartoonId, "/">> \o href \o <<".html">>

VideoUrl(href, cartoonId) ==
  IF Len(href) > 0 /\ IncludesVideo(href)
    THEN IF href[1] = VIDEO_BASE THEN href ELSE <<VIDEO_BASE>> \o href
  ELSE IF ChapterMatch(href) # 0
    THEN <<VIDEO_BASE, "/video/", cartoonId, "/",
           href[ChapterMatch(href)], ".html">>
  ELSE <<VIDEO_BASE, "/video/", cartoonId, "/">> \o href \o <<".html">>

\* Math.min(...numbers) and Math.max(...numbers) of a non-empty list.
RECURSIVE MathMin(_)
MathMin(numbers) ==
  IF Len(numbers) = 1 THEN numbers[1]
  ELSE LET m == MathMin(Tail(numbers))
       IN IF numbers[1] < m THEN numbers[1] ELSE m

RECURSIVE MathMax(_)
MathMax(numbers) ==
  IF Len(numbers) = 1 THEN numbers[1]
  ELSE LET m == MathMax(Tail(numbers))
       IN IF numbers[1] > m THEN numbers[1] ELSE m

\* const numbers = episodes.map((e) => e.number); args.push(min, max)
EpisodeRangeFirstLast(episodes) ==
  [min |-> episodes[1].number, max |-> episodes[Len(episodes)].number]

EpisodeRange(episodes) ==
  LET numbers == [i \in 1..Len(episodes) |-> episodes[i].number]
  IN [min |-> MathMin(numbers), max |-> MathMax(numbers)]

\* processQueue from `const firstEp = episodes[0]` to the spawn call, for
\* the options in input: [scriptPath, videoUrl, outputDir, min, max]. With an
\* empty episode list firstEp is undefined and firstEp.href throws.
BuildArgs ==
  /\ pc = "processQueue"
  /\ IF Len(input.episodes) = 0
       THEN /\ pc' = "threw"
            /\ args' = << >>
       ELSE /\ pc' = "spawned"
            /\ args' = [videoUrl |-> VideoUrl(input.episodes[1].href,
                                              input.cartoonId),
                        min |-> EpisodeRange(input.episodes).min,
                        max |-> EpisodeRange(input.episodes).max]
  /\ UNCHANGED <<input, buffer, seasons, seenUrls, results, decoded, url,
                 settled, sent>>
  /\ UNCHANGED managerVars
  /\ UNCHANGED rendererVars

\* A job is at the head of the queue.
ArgsInit ==
  /\ ManagerInit
  /\ RendererInit
  /\ sent = << >>
  /\ input \in [cartoonId : {CartoonId},
                episodes : SeqsOf([number : EpisodeNumbers, href : EpisodeHrefs],
                                  0, MaxEpisodes)]
  /\ pc = "processQueue"
  /\ buffer = << >>
  /\ seasons = << >>
  /\ seenUrls = {}
  /\ results = << >>
  /\ decoded = << >>
  /\ CallIdle

ArgsNext == BuildArgs

ArgsSpec == ArgsInit /\ [][ArgsNext]_vars

\* ---------------------------------------- claims on the worker's arguments --
\* The episode numbers of the job.
RequestedNumbers == {input.episodes[i].number : i \in 1..Len(input.episodes)}

\* C26: for every job with a non-empty episode list, in any order, the
\* worker is invoked with min-episode and max-episode equal to the minimum
\* and the maximum of the job's episode numbers, so that every requested
\* number lies inside the range passed.
C26_RangeCoversEpisodes ==
  pc = "spawned" =>
    /\ args.min \in RequestedNumbers
    /\ args.max \in RequestedNumbers
    /\ \A n \in RequestedNumbers : args.min <= n /\ n <= args.max

\* A job whose episodes are not in ascending order has been handed to a
\* worker.
C26_Witness ==
  /\ pc = "spawned"
  /\ Len(input.episodes) = 3
  /\ input.episodes[1].number = 2
  /\ input.episodes[2].number = 3
  /\ input.episodes[3].number = 1
  /\ args.min = 1
  /\ args.max = 3

\* The target url as stated without regard to the form of a video href: an
\* href containing "/video/" as it is, else the page of its chapter_id, else
\* the page named by the raw href.
C27_Verbatim(href) ==
  IF \E i \in 1..Len(href) : href[i] = "/video/" THEN href
  ELSE IF \E i \in 1..(Len(href) - 1) :
            href[i] = "chapter_id=" /\ href[i + 1] \in AlnumTokens
    THEN LET i == CHOOSE i \in 1..(Len(href) - 1) :
                    href[i] = "chapter_id=" /\ href[i + 1] \in AlnumTokens
         IN <<VIDEO_BASE, "/video/", CartoonId, "/", href[i + 1], ".html">>
  ELSE <<VIDEO_BASE, "/video/", CartoonId, "/">> \o href \o <<".html">>

\* C27 as stated: the worker's target url comes from the first episode only;
\* an href containing "/video/" is used verbatim, otherwise the chapter_id
\* page, otherwise the raw href as last path segment.
C27_VideoHrefVerbatim ==
  pc = "spawned" => args.videoUrl = C27_Verbatim(input.episodes[1].href)

\* C27, amended: the worker's target url comes from the first episode only;
\* an href containing "/video/" is used verbatim when it begins with "http"
\* and appended to VIDEO_BASE otherwise; an href without "/video/" gives
\* VIDEO_BASE/video/<cartoonId>/<id>.html when it carries chapter_id=<id>,
\* and VIDEO_BASE/video/<cartoonId>/<href>.html otherwise.
C27_TargetFromFirstEpisode ==
  pc = "spawned" =>
    args.videoUrl =
      IF (\E i \in 1..Len(input.episodes[1].href) :
            input.episodes[1].href[i] = "/video/")
         /\ input.episodes[1].href[1] # VIDEO_BASE
        THEN <<VIDEO_BASE>> \o input.episodes[1].href
        ELSE C27_Verbatim(input.episodes[1].href)

\* A job whose first episode has a site-relative video href, followed by an
\* episode with another kind of href, has been handed to a worker.
C27_Witness ==
  /\ pc = "spawned"
  /\ Len(input.episodes) >= 2
  /\ input.episodes[1].href = <<"/video/", "c1/", "e1", ".html">>
  /\ input.episodes[2].href = <<"/play?", "chapter_id=", "abc">>
  /\ args.videoUrl = <<VIDEO_BASE, "/video/", "c1/", "e1", ".html">>

\* ============================================================ the renderer ==
\* The download view of src/renderer/src/app.ts together with the manager:
\* startDownloadFlow, the cancel button, the listeners for download-progress,
\* download-complete and download-error, and the IPC between the two
\* processes. An invocation travels renderer -> main in calls, a message
\* main -> renderer in ipc; both are delivered in order. A handler runs to
\* completion; the cancel handler's await splits it in two.

\* Number of times startDownloadFlow runs past its early returns.
MaxFlows == 2

\* Messages under way to the renderer beyond which no worker adds a
\* download-progress event.
MaxIpc == 1

\* state.animeDetail.cartoonId of the series a flow can be started from.
CartoonIds == {"c1"}

\* The episodes selected in the active season, in season order.
Selections == {<<1>>, <<1, 3>>}

\* The payloads the stdout handler sends on download-progress, apart from
\* cartoonId and episode: a progress line, 'Done in', FAILED (SKIP sends what
\* 'Done in' does but for the status).
ProgressDatas ==
  {[percent |-> 50, status |-> "none"],
   [percent |-> 100, status |-> "done"],
   [percent |-> 0, status |-> "failed"]}

\* The code 'close' delivers for worker p here: the errno of a failed spawn,
\* null after SIGTERM, 0 from a worker left to finish.
CloseCode(p) ==
  IF procs[p].state = "errored" THEN SpawnErrno
  ELSE IF procs[p].signalled THEN NullCode
  ELSE 0

\* `${data.cartoonId}-${data.episode}`
Key(cartoonId, episode) == <<cartoonId, episode>>

\* state.episodeProgress.set(key, data)
MapSet(map, key, data) ==
  [k \in DOMAIN map \cup {key} |-> IF k = key THEN data ELSE map[k]]

\* The loop of updateOverallProgress: totalPercent += data.percent || 0
RECURSIVE TotalPercent(_, _)
TotalPercent(map, keys) ==
  IF keys = {} THEN 0
  ELSE LET k == CHOOSE k \in keys : TRUE
       IN map[k].percent + TotalPercent(map, keys \ {k})

\* updateOverallProgress(): nothing is written when no episode is tracked.
updateOverallProgress(shown, episodes, map) ==
  IF Len(episodes) = 0 THEN shown
  ELSE [total |-> TotalPercent(map, DOMAIN map), count |-> Len(episodes)]

\* overall.toFixed(1), in tenths of a percent.
OverallText(shown) == (20 * shown.total + shown.count) \div (2 * shown.count)

\* The test of onDownloadComplete: every value of state.episodeProgress has
\* status done, skipped or failed.
AllDone(map) ==
  \A k \in DOMAIN map : map[k].status \in {"done", "skipped", "failed"}

\* The invocations of start-download that main has not handled yet.
StartsUnderWay ==
  {i \in DOMAIN calls : calls[i].call = "start-download"}

\* The window exists and app.ts has loaded; the user has opened a series and
\* chosen a folder.
RendererReady ==
  /\ mainWindow = TRUE
  /\ downloadQueue = << >>
  /\ activeDownloadProcess = Null
  /\ queueProcessing = FALSE
  /\ jobs = << >>
  /\ procs = << >>
  /\ result = [call |-> "none", success |-> TRUE, error |-> ""]
  /\ op = "createWindow"
  /\ uncaught = FALSE
  /\ shifted = {}
  /\ cancelled = {}
  /\ cleared = {}
  /\ sent = << >>
  /\ PureIdle
  /\ currentView = "detail"
  /\ isDownloading = FALSE
  /\ downloadEpisodes = << >>
  /\ episodeProgress = << >>
  /\ overall = [total |-> 0, count |-> 1]
  /\ cancelLabel = "cancel"
  /\ calls = << >>
  /\ ipc = << >>
  /\ cartoons = << >>

\* startDownloadFlow() up to its await, for the selection selectedEps of the
\* series cartoonId. It runs on a click on btnDownload, which belongs to the
\* detail view.
StartDownloadFlow(cartoonId, selectedEps) ==
  /\ Len(jobs) + Cardinality(StartsUnderWay) < MaxFlows
  /\ currentView = "detail"
  /\ currentView' = "download"
  /\ downloadEpisodes' = downloadEpisodes \o selectedEps
  /\ isDownloading' = TRUE
  /\ overall' = [total |-> 0, count |-> 1]
  /\ episodeProgress' =
       IF Len(downloadEpisodes \o selectedEps) = Len(selectedEps)
         THEN << >> ELSE episodeProgress
  /\ cancelLabel' = "cancel"
  /\ calls' = Append(calls, [call |-> "start-download",
                             cartoonId |-> cartoonId,
                             episodes |-> selectedEps])
  /\ UNCHANGED <<ipc, cartoons, sent>>
  /\ UNCHANGED managerVars
  /\ UNCHANGED pureVars

\* Main handles the start-download invocation at the head of calls. The
\* reply only ever adds a log line in the renderer.
IpcStartDownload(spawnOk) ==
  /\ Len(calls) > 0
  /\ calls[1].call = "start-download"
  /\ StartDownload(calls[1].episodes, spawnOk)
  /\ cartoons' = Append(cartoons, calls[1].cartoonId)
  /\ calls' = Tail(calls)
  /\ UNCHANGED <<currentView, isDownloading, downloadEpisodes,
                 episodeProgress, overall, cancelLabel, ipc>>

\* A click on the cancel button, shown in the download view: the handler
\* invokes cancel-download and awaits the reply.
CancelClick ==
  /\ currentView = "download"
  /\ \A i \in DOMAIN calls : calls[i].call # "cancel-download"
  /\ \A i \in DOMAIN ipc : ipc[i].channel # "cancel-download"
  /\ calls' = Append(calls, [call |-> "cancel-download"])
  /\ UNCHANGED <<currentView, isDownloading, downloadEpisodes,
                 episodeProgress, overall, cancelLabel, ipc, cartoons, sent>>
  /\ UNCHANGED managerVars
  /\ UNCHANGED pureVars

\* Main handles the cancel-download invocation at the head of calls and
\* replies.
IpcCancelDownload ==
  /\ Len(calls) > 0
  /\ calls[1].call = "cancel-download"
  /\ CancelDownload
  /\ calls' = Tail(calls)
  /\ ipc' = Append(ipc, [channel |-> "cancel-download"])
  /\ UNCHANGED <<currentView, isDownloading, downloadEpisodes,
                 episodeProgress, overall, cancelLabel, cartoons>>

\* The stdout handler of worker p sends a download-progress event: the
\* worker was given the range min..max of its job's episode numbers and
\* reports on the episodes in it. A worker that was sent SIGTERM can still
\* have output under way until its 'close'.
Progress(p, episode, data) ==
  /\ ~ErrorPending
  /\ p \in DOMAIN procs
  /\ procs[p].state = "running"
  /\ Len(ipc) < MaxIpc
  /\ episode \in MathMin(jobs[procs[p].job])..MathMax(jobs[procs[p].job])
  /\ ipc' = Append(ipc, [channel |-> "download-progress",
                         cartoonId |-> cartoons[procs[p].job],
                         episode |-> episode,
                         percent |-> data.percent,
                         status |-> data.status])
  /\ UNCHANGED <<currentView, isDownloading, downloadEpisodes,
                 episodeProgress, overall, cancelLabel, calls, cartoons, sent>>
  /\ UNCHANGED managerVars
  /\ UNCHANGED pureVars

\* The 'close' handler of worker p, its send reaching the window's channel.
WorkerClose(p, code, spawnOk) ==
  /\ Close(p, code, spawnOk)
  /\ ipc' = Append(ipc, [channel |-> "download-complete",
                         code |-> NormalizeCode(code)])
  /\ UNCHANGED <<currentView, isDownloading, downloadEpisodes,
                 episodeProgress, overall, cancelLabel, calls, cartoons>>

\* The 'error' handler of worker p, its send reaching the window's channel.
WorkerError(p, spawnOk) ==
  /\ Error(p, spawnOk)
  /\ ipc' = Append(ipc, [channel |-> "download-error"])
  /\ UNCHANGED <<currentView, isDownloading, downloadEpisodes,
                 episodeProgress, overall, cancelLabel, calls, cartoons>>

\* window.api.onDownloadProgress((data) => ...)
OnDownloadProgress ==
  /\ Len(ipc) > 0
  /\ ipc[1].channel = "download-progress"
  /\ LET map == MapSet(episodeProgress,
                       Key(ipc[1].cartoonId, ipc[1].episode),
                       [percent |-> ipc[1].percent, status |-> ipc[1].status])
     IN /\ episodeProgress' = map
        /\ overall' = updateOverallProgress(overall, downloadEpisodes, map)
  /\ ipc' = Tail(ipc)
  /\ UNCHANGED <<currentView, isDownloading, downloadEpisodes, cancelLabel,
                 calls, cartoons, sent>>
  /\ UNCHANGED managerVars
  /\ UNCHANGED pureVars

\* window.api.onDownloadComplete(({ code }) => ...)
OnDownloadComplete ==
  /\ Len(ipc) > 0
  /\ ipc[1].channel = "download-complete"
  /\ IF AllDone(episodeProgress)
       THEN isDownloading' = FALSE /\ cancelLabel' = "back"
       ELSE UNCHANGED <<isDownloading, cancelLabel>>
  /\ ipc' = Tail(ipc)
  /\ UNCHANGED <<currentView, downloadEpisodes, episodeProgress, overall,
                 calls, cartoons, sent>>
  /\ UNCHANGED managerVars
  /\ UNCHANGED pureVars

\* window.api.onDownloadError((msg) => ...): a log line.
OnDownloadError ==
  /\ Len(ipc) > 0
  /\ ipc[1].channel = "download-error"
  /\ ipc' = Tail(ipc)
  /\ UNCHANGED <<currentView, isDownloading, downloadEpisodes,
                 episodeProgress, overall, cancelLabel, calls, cartoons, sent>>
  /\ UNCHANGED managerVars
  /\ UNCHANGED pureVars

\* The cancel handler after its await: the reply has arrived.
CancelResume ==
  /\ Len(ipc) > 0
  /\ ipc[1].channel = "cancel-download"
  /\ isDownloading' = FALSE
  /\ downloadEpisodes' = << >>
  /\ episodeProgress' = << >>
  /\ overall' = [total |-> 0, count |-> 1]
  /\ currentView' = "detail"
  /\ ipc' = Tail(ipc)
  /\ UNCHANGED <<cancelLabel, calls, cartoons, sent>>
  /\ UNCHANGED managerVars
  /\ UNCHANGED pureVars

\* dom.btnBack in the download view.
BackClick ==
  /\ currentView = "download"
  /\ currentView' = "detail"
  /\ UNCHANGED <<isDownloading, downloadEpisodes, episodeProgress, overall,
                 cancelLabel, calls, ipc, cartoons, sent>>
  /\ UNCHANGED managerVars
  /\ UNCHANGED pureVars

\* dom.btnGotoDownload, shown outside the download view while there are
\* downloads.
GotoDownloadClick ==
  /\ currentView # "download"
  /\ Len(downloadEpisodes) > 0 \/ isDownloading
  /\ currentView' = "download"
  /\ UNCHANGED <<isDownloading, downloadEpisodes, episodeProgress, overall,
                 cancelLabel, calls, ipc, cartoons, sent>>
  /\ UNCHANGED managerVars
  /\ UNCHANGED pureVars

RendererNext ==
  \/ \E c \in CartoonIds, e \in Selections : StartDownloadFlow(c, e)
  \/ \E ok \in BOOLEAN : IpcStartDownload(ok)
  \/ CancelClick
  \/ IpcCancelDownload
  \/ \E p \in 1..MaxJobs, e \in 1..3, d \in ProgressDatas : Progress(p, e, d)
  \/ \E p \in DOMAIN procs, ok \in BOOLEAN :
       WorkerClose(p, CloseCode(p), ok)
  \/ \E p \in 1..MaxJobs, ok \in BOOLEAN : WorkerError(p, ok)
  \/ OnDownloadProgress
  \/ OnDownloadComplete
  \/ OnDownloadError
  \/ CancelResume
  \/ BackClick
  \/ GotoDownloadClick

RendererSpec == RendererReady /\ [][RendererNext]_vars

\* ------------------------------------------------- claims on the renderer --

\* No job that was submitted is queued or running: every start-download has
\* reached main, the queue is empty and no worker is live.
C31_NoJobLeft ==
  /\ StartsUnderWay = {}
  /\ Len(downloadQueue) = 0
  /\ Live = {}

\* Every episode in state.downloadEpisodes has an entry in
\* state.episodeProgress whose status is done, skipped or failed.
C31_EveryEpisodeFinal ==
  \A i \in DOMAIN downloadEpisodes :
    \E k \in DOMAIN episodeProgress :
      /\ k[2] = downloadEpisodes[i]
      /\ episodeProgress[k].status \in {"done", "skipped", "failed"}

\* C31: when the renderer handles a download-complete event,
\* state.isDownloading goes from true to false (and the cancel button turns
\* into 'back') only if no submitted job is still queued or running, that
\* is, only when every episode in state.downloadEpisodes has reached a done,
\* skipped or failed status.
C31_DoneOnlyWhenNoJobLeft ==
  [][(/\ Len(ipc) > 0
      /\ ipc[1].channel = "download-complete"
      /\ ipc' = Tail(ipc)
      /\ isDownloading
      /\ ~isDownloading')
       => C31_NoJobLeft /\ C31_EveryEpisodeFinal]_vars

\* C32: the overall progress the renderer shows, as the width of the bar and
\* as the text, stays within 0..100 after any sequence of start-download
\* flows, download-progress events and cancels; every progress event
\* carries a percent within 0..100.
C32_OverallWithinBounds ==
  /\ 0 <= overall.total
  /\ overall.total <= 100 * overall.count
  /\ OverallText(overall) \in 0..1000

====
